---- MODULE Spec2Model ----
(***************************************************************************)
(* p-kit: the stochastic relaxation solver (CaSuDaSolver.solve) and the    *)
(* circuit decorators (pcircuit, module) of p_kit.psl.decorators.          *)
(*                                                                         *)
(* Number representation.  J, h, i0, the currents I and the spins m are    *)
(* small integers (floating point is exact on them).  Values in [0,1] (the *)
(* random draws, the survival value s_i, the constant 0.5) are fixed-point *)
(* numbers in units of 1/100000.  The energy holds a factor 0.5, so it is  *)
(* kept in half-units (E = k means the float k/2).  Units are numbered     *)
(* 1..n here and 0..n-1 in the Python source.                              *)
(***************************************************************************)
EXTENDS Integers, Sequences, FiniteSets, TLC

(* ------------------------------ bounds --------------------------------- *)
\* units of a circuit handed to solve or declared with pcircuit
MaxN == 2
\* time steps of a solve call
MaxNt == 2
\* units of a sub-circuit of a module, attributes a module's constructor
\* assigns, instances of a module class
MaxSub == 3
MaxAttrs == 2
MaxInst == 2

(* --------------------------- numpy helpers ----------------------------- *)
RECURSIVE SumTo(_, _)
SumTo(f, k) == IF k = 0 THEN 0 ELSE f[k] + SumTo(f, k - 1)

\* np.sign: -1, 0 or +1; the sign of 0 is 0.
Sign(x) == IF x > 0 THEN 1 ELSE IF x < 0 THEN -1 ELSE 0

\* np.dot of two vectors of the same length.
Dot(a, b) == SumTo([k \in 1..Len(a) |-> a[k] * b[k]], Len(a))

\* Shape rule of np.dot for operands of one or two dimensions; <<-1>> stands
\* for the ValueError numpy raises when the inner dimensions differ.
ShapeError == <<-1>>
DotShape(sa, sb) ==
    IF sa = ShapeError \/ sb = ShapeError THEN ShapeError
    ELSE IF Len(sa) = 1 /\ Len(sb) = 1
         THEN (IF sa[1] = sb[1] THEN << >> ELSE ShapeError)
    ELSE IF Len(sa) = 2 /\ Len(sb) = 2
         THEN (IF sa[2] = sb[1] THEN <<sa[1], sb[2]>> ELSE ShapeError)
    ELSE IF Len(sa) = 1 /\ Len(sb) = 2
         THEN (IF sa[1] = sb[1] THEN <<sb[2]>> ELSE ShapeError)
    ELSE IF Len(sa) = 2 /\ Len(sb) = 1
         THEN (IF sa[2] = sb[1] THEN <<sa[1]>> ELSE ShapeError)
    ELSE ShapeError

(* ------------------------------- arrays -------------------------------- *)
\* A numpy array: its shape and its values in row-major order.
RECURSIVE Prod(_)
Prod(shape) == IF shape = << >> THEN 1 ELSE Head(shape) * Prod(Tail(shape))

\* np.zeros(shape)
Zeros(shape) == [shape |-> shape, flat |-> [k \in 1..Prod(shape) |-> 0]]

\* A[i][j] of a two-dimensional array, and the row A[i] as a vector.
At2(A, i, j) == A.flat[(i - 1) * A.shape[2] + j]
Row(A, i) == [j \in 1..A.shape[2] |-> At2(A, i, j)]

\* h[i]: a scalar when h has shape (n,), a one-element array when h has
\* shape (n,1); its value either way.
HAt(h, i) == h.flat[i]

\* An a x b matrix with zero diagonal, 1 above it and `low` below it.
MatOf(a, b, low) ==
    [shape |-> <<a, b>>,
     flat  |-> [k \in 1..(a * b) |->
                  LET i == ((k - 1) \div b) + 1
                      j == ((k - 1) % b) + 1
                  IN  IF i = j THEN 0 ELSE IF j > i THEN 1 ELSE low]]

\* An array of the given shape filled with v.
Full(shape, v) == [shape |-> shape, flat |-> [k \in 1..Prod(shape) |-> v]]

HVals == {-1, 0, 2}

\* np.dot(v, A) for a vector v and a two-dimensional array A: the vector v.A
VecMat(v, A) ==
    [j \in 1..A.shape[2] |-> SumTo([i \in 1..Len(v) |-> v[i] * At2(A, i, j)], Len(v))]

(* ----------------------------- variables ------------------------------- *)
VARIABLES
    \* pcircuit: the class last decorated, the instance last created, and
    \* how the last decoration / instantiation ended
    circuitCls, circuitInst, outcome,
    \* module: the decorated module class (its recipe and the context the
    \* decorator closed over), the instances constructed, the last synthesize
    modCls, modInsts, synth,
    \* solve: program position, arguments, locals, return value
    pc, c, solver, m, mShape, run, all_I, all_m, E, ret,
    \* the random generator: the stream it yields from its seed state, as far
    \* as it has been observed, and its position in that stream
    tape, rngPos,
    \* history: draws of the current call, the initial spins, the calls made,
    \* the value the first call returned
    drawLog, m_init, calls, firstRet

circuitVars == <<circuitCls, circuitInst, outcome>>
moduleVars == <<modCls, modInsts, synth>>
solveVars == <<pc, c, solver, m, mShape, run, all_I, all_m, E, ret,
               tape, rngPos, drawLog, m_init, calls, firstRet>>
vars == <<circuitVars, moduleVars, solveVars>>

None == [none |-> TRUE]

(* ------------------------- pcircuit (decorator) ------------------------ *)
\* A class about to be decorated: the names of its Port attributes in
\* declaration order, and its class attributes h and J (None when absent).
PortNames(k) == [p \in 1..k |-> p]

HArrays == UNION { {Full(<<k>>, v), Full(<<k, 1>>, v), Full(<<1, k>>, v)} :
                   k \in 1..MaxN, v \in HVals }
JArrays == UNION { {Zeros(<<a, b>>), MatOf(a, b, 1), MatOf(a, b, -1)} :
                   a \in 1..MaxN, b \in 1..MaxN }

Classes == [ports : {PortNames(k) : k \in 0..(MaxN + 1)},
            h : {None} \cup HArrays,
            J : {None} \cup JArrays]

\* pcircuit(n_pbits)(cls): the port-count check; the decorated class on
\* success.
PortCountAtLeast(cls, n_pbits) == Len(cls.ports) >= n_pbits
PortCountOK(cls, n_pbits) == Len(cls.ports) = n_pbits

Decorator(cls, n_pbits) ==
    IF ~PortCountOK(cls, n_pbits)
    THEN [ok |-> FALSE, error |-> "ValueError", about |-> "ports",
          expected |-> n_pbits, found |-> cls.ports]
    ELSE [ok |-> TRUE,
          cls |-> [n_pbits |-> n_pbits, ports |-> cls.ports, h |-> cls.h, J |-> cls.J,
                   port_indices |-> [p \in 1..Len(cls.ports) |-> p - 1]]]

\* The shape checks of the decorated class's __new__.
HShapeOK(dcls) == dcls.h = None \/ dcls.h.shape = <<dcls.n_pbits, 1>>
JShapeOK(dcls) == dcls.J = None \/ dcls.J.shape = <<dcls.n_pbits, dcls.n_pbits>>

\* __new__ of a decorated class: the instance, or the ValueError raised.
New(dcls) ==
    LET n == dcls.n_pbits
        h == IF dcls.h = None THEN Zeros(<<n, 1>>) ELSE dcls.h
        J == IF dcls.J = None THEN Zeros(<<n, n>>) ELSE dcls.J
    IN  IF ~HShapeOK(dcls)
        THEN [ok |-> FALSE, error |-> "ValueError", about |-> "h"]
        ELSE IF ~JShapeOK(dcls)
        THEN [ok |-> FALSE, error |-> "ValueError", about |-> "J"]
        ELSE [ok |-> TRUE,
              instance |-> [n_pbits |-> n, h |-> h, J |-> J,
                            ports |-> [p \in 1..Len(dcls.ports) |->
                                         [name |-> dcls.ports[p],
                                          index |-> dcls.port_indices[p]]]]]

\* @pcircuit(n_pbits) applied to a class.
PcircuitDecorate(cls, n_pbits) ==
    LET r == Decorator(cls, n_pbits)
    IN  /\ circuitCls = None
        /\ outcome' = (IF r.ok THEN [op |-> "decorate", ok |-> TRUE, n |-> n_pbits,
                                     ports |-> cls.ports]
                       ELSE [op |-> "decorate", ok |-> FALSE, n |-> n_pbits,
                             ports |-> cls.ports, error |-> r.error,
                             about |-> r.about, found |-> r.found])
        /\ circuitCls' = (IF r.ok THEN r.cls ELSE circuitCls)
        /\ UNCHANGED <<circuitInst, moduleVars, solveVars>>

\* An instance of the decorated class is created.
PcircuitNew ==
    /\ circuitCls # None
    /\ LET r == New(circuitCls)
       IN  /\ outcome' = (IF r.ok THEN [op |-> "new", ok |-> TRUE]
                          ELSE [op |-> "new", ok |-> FALSE, error |-> r.error,
                                about |-> r.about])
           /\ circuitInst' = (IF r.ok THEN r.instance ELSE None)
    /\ UNCHANGED <<circuitCls, moduleVars, solveVars>>

(* -------------------------- module (decorator) ------------------------- *)
\* Values a module's constructor may assign to attributes: pcircuit
\* instances of MaxSub - 1 and MaxSub units, an object without n_pbits, and an object
\* that has n_pbits but neither J nor h.
SubCircuit(n) ==
    New(Decorator([ports |-> PortNames(n), h |-> Full(<<n, 1>>, 2),
                   J |-> MatOf(n, n, -1)], n).cls).instance
PlainObject == [plain |-> TRUE]
SizedObject == [n_pbits |-> 1]
AttrObjs == {SubCircuit(n) : n \in (MaxSub - 1)..MaxSub} \cup {PlainObject, SizedObject}

Recipes == UNION {[1..k -> AttrObjs] : k \in 0..MaxAttrs}

HasAttr(obj, name) == name \in DOMAIN obj

\* ModuleContext.register_instance: append with the running total as offset.
TotalN(registered) ==
    SumTo([k \in 1..Len(registered) |-> registered[k].circuit.n_pbits], Len(registered))
RegisterInstance(registered, obj) ==
    Append(registered, [circuit |-> obj, offset |-> TotalN(registered)])

\* ModuleContext.synthesize: the block-diagonal J and h of the registered
\* circuits, dense (arrays) or sparse (the nonzero entries as a mapping).
BlockOf(registered, i) ==
    CHOOSE k \in 1..Len(registered) :
        /\ registered[k].offset < i
        /\ i <= registered[k].offset + registered[k].circuit.n_pbits
DenseJ(registered) ==
    LET total == TotalN(registered)
    IN  [shape |-> <<total, total>>,
         flat  |-> [q \in 1..(total * total) |->
                      LET i == ((q - 1) \div total) + 1
                          j == ((q - 1) % total) + 1
                          k == BlockOf(registered, i)
                          off == registered[k].offset
                      IN  IF BlockOf(registered, j) = k
                          THEN At2(registered[k].circuit.J, i - off, j - off)
                          ELSE 0]]
DenseH(registered) ==
    LET total == TotalN(registered)
    IN  [shape |-> <<total>>,
         flat  |-> [i \in 1..total |->
                      LET k == BlockOf(registered, i)
                      IN  HAt(registered[k].circuit.h, i - registered[k].offset)]]
ContextSynthesize(registered, format) ==
    IF \E k \in 1..Len(registered) :
          ~HasAttr(registered[k].circuit, "J") \/ ~HasAttr(registered[k].circuit, "h")
    THEN [ok |-> FALSE, error |-> "AttributeError"]
    ELSE LET Jg == DenseJ(registered)
             hg == DenseH(registered)
             total == TotalN(registered)
         IN  IF format = "dense"
             THEN [ok |-> TRUE, format |-> "dense", J |-> Jg, h |-> hg]
             ELSE [ok |-> TRUE, format |-> "sparse",
                   J |-> {<<i, j, At2(Jg, i, j)>> : i \in 1..total, j \in 1..total}
                         \ {<<i, j, 0>> : i \in 1..total, j \in 1..total},
                   h |-> {<<i, hg.flat[i]>> : i \in 1..total}
                         \ {<<i, 0>> : i \in 1..total}]

\* The registration test of the module's __init__.
Registers(obj) == HasAttr(obj, "n_pbits")

\* The loop of __init__ over vars(self): the attributes in assignment order.
RECURSIVE RegisterAttrs(_, _)
RegisterAttrs(registered, attrs) ==
    IF attrs = << >> THEN registered
    ELSE RegisterAttrs(IF Registers(Head(attrs))
                       THEN RegisterInstance(registered, Head(attrs))
                       ELSE registered,
                       Tail(attrs))

\* The context an instance's _context refers to: the one the decorator
\* created when it was applied to the class.
ContextOf(inst) == modCls.context

\* @module applied to a class whose __init__ assigns the recipe's values.
ModuleDecorate(recipe) ==
    /\ modCls = None
    /\ modCls' = [recipe |-> recipe, context |-> << >>]
    /\ UNCHANGED <<modInsts, synth, circuitVars, solveVars>>

\* An instance of the module class is constructed (__new__, then __init__).
ModuleNew ==
    /\ modCls # None
    /\ Len(modInsts) < MaxInst
    /\ LET inst == [attrs |-> modCls.recipe]
       IN  /\ modInsts' = Append(modInsts, inst)
           /\ modCls' = [modCls EXCEPT !.context = RegisterAttrs(ContextOf(inst), inst.attrs)]
    /\ UNCHANGED <<synth, circuitVars, solveVars>>

\* The format test of the module's synthesize.
FormatAny(format) == format \in {"sparse", "dense", "csr"}
FormatOK(format) == format \in {"sparse", "dense"}
Formats == {"sparse", "dense", "csr"}

\* instance.synthesize(...) : fmtArg is the argument, or "default" when the
\* call passes none.
Synthesize(i, fmtArg) ==
    /\ i \in 1..Len(modInsts)
    /\ UNCHANGED <<modCls, modInsts, circuitVars, solveVars>>
    /\ LET format == IF fmtArg = "default" THEN "sparse" ELSE fmtArg
           call == [inst |-> i, arg |-> fmtArg, format |-> format,
                    registered |-> ContextOf(modInsts[i]),
                    after |-> modCls'.context]
       IN  synth' = IF ~FormatOK(format)
                    THEN call @@ [invoked |-> FALSE,
                                  result |-> [ok |-> FALSE, error |-> "ValueError"]]
                    ELSE call @@ [invoked |-> TRUE,
                                  result |-> ContextSynthesize(ContextOf(modInsts[i]), format)]

(* ------------------------------- solver -------------------------------- *)
\* The constant 0.5 of the initialization, in units of 1/100000.
Half == 50000

\* random(): the values a draw may take, in units of 1/100000: the value
\* 0.5 and the value exp(-exp(-1)) that the survival value takes at
\* argument 1 (both are values a 53-bit draw from [0,1) can take).
DrawSet == {50000, 69220}

\* np.arctanh(expected_mean), for the expected means 0 and tanh(1).
Arctanh(em) == IF em = 0 THEN 0 ELSE 1

\* np.exp(-1 * dt * np.exp(-1 * x)) for dt = 1 and integer x, rounded down
\* to 1/100000; it saturates at both ends.
Survival(dt, x) ==
    IF x <= -3 THEN 0
    ELSE IF x >= 12 THEN 99999
    ELSE <<61, 6598, 36787, 69220, 87342, 95143, 98185, 99328,
           99752, 99908, 99966, 99987, 99995, 99998>>[x + 3]

\* Circuits handed to solve: a PCircuit with J and h assigned as arrays of
\* shape (n,n) and (n,), and instances of pcircuit classes.
PCircuits ==
    UNION { { [n_pbits |-> n, J |-> Jm, h |-> Full(<<n>>, v)] :
                Jm \in {MatOf(n, n, 2)}, v \in HVals } :
            n \in 1..MaxN }
PcircuitInstances ==
    { New(Decorator(cls, Len(cls.ports)).cls).instance :
        cls \in { k \in Classes : /\ Len(k.ports) \in 1..MaxN
                                  /\ New(Decorator(k, Len(k.ports)).cls).ok } }
SolveCircuits == PCircuits \cup PcircuitInstances

\* Solver(Nt, dt, i0, expected_mean)
Solvers ==
    { [Nt |-> Nt, dt |-> 1, i0 |-> p[1], expected_mean |-> p[2]] :
        Nt \in 1..MaxNt, p \in {<<1, 0>>, <<2, 76159>>} }

\* indices = range(n_pbits): position k of a comprehension handles unit
\* indices(n)[k].
indicesReversed(n) == [k \in 1..n |-> n + 1 - k]
indices(n) == [k \in 1..n |-> k]

\* The draws a comprehension over n units takes from the generator at
\* position rngPos: those the stream already fixes, any value otherwise.
Draws(n) ==
    { ds \in [1..n -> DrawSet] :
        \A k \in 1..n : rngPos + k <= Len(tape) => ds[k] = tape[rngPos + k] }
\* stage: 0 for the initialization, t + 1 for step t.
TakeDraws(ds, stage) ==
    LET n == Len(ds)
        top == IF rngPos + n > Len(tape) THEN rngPos + n ELSE Len(tape)
    IN  /\ tape' = [k \in 1..top |->
                     IF k > rngPos /\ k <= rngPos + n THEN ds[k - rngPos] ELSE tape[k]]
        /\ rngPos' = rngPos + n
        /\ drawLog' = (IF stage = 0 THEN << >> ELSE drawLog) \o
                      [k \in 1..n |-> [pos |-> rngPos + k, unit |-> indices(n)[k],
                                       stage |-> stage]]

\* m = [np.sign(0.5 - random()) for _ in indices]
InitSpins(n, ds) == [k \in 1..n |-> Sign(Half - ds[k])]

\* I = [i0 * (np.dot(m, c.J[i]) + c.h[i]) for i in indices]
CurrentsByColumn(slv, circ, mm) ==
    [k \in 1..circ.n_pbits |->
        LET i == indices(circ.n_pbits)[k]
        IN  slv.i0 * (Dot(mm, [j \in 1..circ.n_pbits |-> At2(circ.J, j, i)]) + HAt(circ.h, i))]
Currents(slv, circ, mm) ==
    [k \in 1..circ.n_pbits |->
        LET i == indices(circ.n_pbits)[k]
        IN  slv.i0 * (Dot(mm, Row(circ.J, i)) + HAt(circ.h, i))]

\* s = [np.exp(-dt * np.exp(-m[i] * (I[i] + threshold))) for i in indices]
SurvivalValues(slv, circ, mm, I) ==
    LET threshold == Arctanh(slv.expected_mean)
    IN  [k \in 1..circ.n_pbits |->
            LET i == indices(circ.n_pbits)[k]
            IN  Survival(slv.dt, mm[i] * (I[i] + threshold))]

\* m = [m[i] * np.sign(s[i] - random()) for i in indices]
NewSpins(circ, mm, s, ds) ==
    [k \in 1..circ.n_pbits |->
        LET i == indices(circ.n_pbits)[k]
        IN  mm[i] * Sign(s[i] - ds[k])]

\* i0 * (np.dot(m, c.h) + np.multiply(0.5, np.dot(np.dot(m, c.J), m))),
\* in half-units.
EnergyWithoutHalf(slv, circ, mm) ==
    slv.i0 * (2 * Dot(mm, circ.h.flat) + 2 * Dot(VecMat(mm, circ.J), mm))
Energy(slv, circ, mm) ==
    slv.i0 * (2 * Dot(mm, circ.h.flat) + Dot(VecMat(mm, circ.J), mm))

\* Shapes numpy works with: of one entry of I, s and the new m, and of the
\* operands of the energy's products.
Broadcast(sa, sb) == IF sa = ShapeError \/ sb = ShapeError THEN ShapeError
                     ELSE IF Len(sa) >= Len(sb) THEN sa ELSE sb
EntryShape(circ, shape) ==
    Broadcast(DotShape(shape, <<circ.n_pbits>>), Tail(circ.h.shape))
EnergyShape(circ, shape) ==
    Broadcast(DotShape(shape, circ.h.shape),
              DotShape(DotShape(shape, circ.J.shape), shape))

\* solver.solve(c): lines 12-19, the locals and the initial spins.
SolveCall(slv, circ) ==
    /\ pc \in {"idle", "done", "aborted"}
    /\ calls < 2
    /\ rngPos = 0
    /\ calls > 0 => (slv = solver /\ circ = c)
    /\ \E ds \in Draws(circ.n_pbits) :
          /\ TakeDraws(ds, 0)
          /\ m' = InitSpins(circ.n_pbits, ds)
          /\ m_init' = InitSpins(circ.n_pbits, ds)
    /\ mShape' = <<circ.n_pbits>>
    /\ c' = circ
    /\ solver' = slv
    /\ all_I' = [t \in 1..slv.Nt |-> << >>]
    /\ all_m' = [t \in 1..slv.Nt |-> << >>]
    /\ E' = [t \in 1..slv.Nt |-> 0]
    /\ run' = 0
    /\ calls' = calls + 1
    /\ pc' = "loop"
    /\ UNCHANGED <<ret, firstRet, circuitVars, moduleVars>>

\* One iteration of the loop, lines 21-41.
SolveStep ==
    /\ pc = "loop"
    /\ run < solver.Nt
    /\ LET I == Currents(solver, c, m)
           s == SurvivalValues(solver, c, m, I)
           entry == EntryShape(c, mShape)
           shape == <<c.n_pbits>> \o entry
       IN  IF entry = ShapeError
           THEN /\ pc' = "aborted"
                /\ UNCHANGED <<m, mShape, all_I, all_m, E, run, tape, rngPos, drawLog>>
           ELSE \E ds \in Draws(c.n_pbits) :
                  LET mNew == NewSpins(c, m, s, ds)
                  IN  /\ TakeDraws(ds, run + 1)
                      /\ m' = mNew
                      /\ mShape' = shape
                      /\ all_I' = [all_I EXCEPT ![run + 1] = I]
                      /\ all_m' = [all_m EXCEPT ![run + 1] = mNew]
                      /\ IF EnergyShape(c, shape) = ShapeError
                         THEN /\ pc' = "aborted"
                              /\ UNCHANGED <<E, run>>
                         ELSE /\ E' = [E EXCEPT ![run + 1] = Energy(solver, c, mNew)]
                              /\ run' = run + 1
                              /\ pc' = "loop"
    /\ UNCHANGED <<c, solver, ret, m_init, calls, firstRet, circuitVars, moduleVars>>

\* return np.array(all_I), np.array(all_m), E   (line 43)
SolveReturn ==
    /\ pc = "loop"
    /\ run = solver.Nt
    /\ ret' = [I |-> all_I, m |-> all_m, E |-> E, shape |-> <<solver.Nt>> \o mShape]
    /\ firstRet' = (IF calls = 1
                    THEN [I |-> all_I, m |-> all_m, E |-> E,
                          shape |-> <<solver.Nt>> \o mShape]
                    ELSE firstRet)
    /\ pc' = "done"
    /\ UNCHANGED <<c, solver, m, mShape, run, all_I, all_m, E, tape, rngPos, drawLog,
                   m_init, calls, circuitVars, moduleVars>>

\* random.seed(k): the generator is put back into its seed state.
Seed ==
    /\ pc \in {"done", "aborted"}
    /\ calls < 2
    /\ rngPos # 0
    /\ rngPos' = 0
    /\ UNCHANGED <<pc, c, solver, m, mShape, run, all_I, all_m, E, ret, tape, drawLog,
                   m_init, calls, firstRet, circuitVars, moduleVars>>

(* --------------------------- specifications ---------------------------- *)
Init ==
    /\ circuitCls = None /\ circuitInst = None /\ outcome = None
    /\ modCls = None /\ modInsts = << >> /\ synth = None
    /\ pc = "idle" /\ c = None /\ solver = None
    /\ m = << >> /\ mShape = << >> /\ run = 0
    /\ all_I = << >> /\ all_m = << >> /\ E = << >> /\ ret = None
    /\ tape = << >> /\ rngPos = 0
    /\ drawLog = << >> /\ m_init = << >> /\ calls = 0 /\ firstRet = None

NextCircuit ==
    \/ \E cls \in Classes, n \in 1..MaxN : PcircuitDecorate(cls, n)
    \/ PcircuitNew

NextModule ==
    \/ \E recipe \in Recipes : ModuleDecorate(recipe)
    \/ ModuleNew
    \/ \E i \in 1..MaxInst, f \in Formats \cup {"default"} : Synthesize(i, f)

NextSolve ==
    \/ \E slv \in (IF calls = 0 THEN Solvers ELSE {solver}),
          circ \in (IF calls = 0 THEN SolveCircuits ELSE {c}) : SolveCall(slv, circ)
    \/ SolveStep
    \/ SolveReturn
    \/ Seed

SpecCircuit == Init /\ [][NextCircuit]_vars
SpecModule == Init /\ [][NextModule]_vars
SpecSolve == Init /\ [][NextSolve]_vars

(* ------------------------------ properties ----------------------------- *)
\* The spin vector before step t (t = 1 is the first step) of the current
\* call: the initial spins, then the vector recorded by the step before.
PreStep(t) == IF t = 1 THEN m_init ELSE all_m[t - 1]

\* An attribute value that exposes all of n_pbits, J and h.
IsCircuit(obj) == {"n_pbits", "J", "h"} \subseteq DOMAIN obj

RECURSIVE CircuitsOf(_)
CircuitsOf(attrs) ==
    IF attrs = << >> THEN << >>
    ELSE (IF IsCircuit(Head(attrs)) THEN <<Head(attrs)>> ELSE << >>) \o CircuitsOf(Tail(attrs))

RECURSIVE Repeat(_, _)
Repeat(seq, k) == IF k = 0 THEN << >> ELSE seq \o Repeat(seq, k - 1)

SizeSum(circs, k) == SumTo([q \in 1..Len(circs) |-> circs[q].n_pbits], k)

\* C1: every spin of m, and every entry recorded in m_history, is +1 or -1
\* in every state of a solve call.
C1_SpinsPlusMinusOne ==
    pc # "idle" =>
        /\ \A i \in 1..Len(m) : m[i] \in {-1, 1}
        /\ \A t \in 1..run : \A i \in 1..Len(all_m[t]) : all_m[t][i] \in {-1, 1}

\* C2: synthesize('dense') on an instance whose constructor assigns
\* sub-circuits of sizes n_1..n_k (and no object that merely has n_pbits)
\* returns a total_n x total_n matrix, total_n = n_1+...+n_k, holding the
\* k-th sub-circuit's J at offset n_1+...+n_(k-1) and zero elsewhere,
\* whatever instances of the class were constructed before.
C2_DenseIsBlockDiagonalOfInstance ==
    (/\ synth # None
     /\ synth.format = "dense"
     /\ \A a \in 1..Len(modInsts[synth.inst].attrs) :
            LET obj == modInsts[synth.inst].attrs[a]
            IN  IsCircuit(obj) \/ ~HasAttr(obj, "n_pbits"))
    => LET circs == CircuitsOf(modInsts[synth.inst].attrs)
           total == SizeSum(circs, Len(circs))
           InBlock(q, i) == SizeSum(circs, q - 1) < i /\ i <= SizeSum(circs, q)
       IN  /\ synth.result.ok
           /\ synth.result.J.shape = <<total, total>>
           /\ \A i \in 1..total, j \in 1..total :
                 At2(synth.result.J, i, j) =
                    IF \E q \in 1..Len(circs) : InBlock(q, i) /\ InBlock(q, j)
                    THEN LET q == CHOOSE q \in 1..Len(circs) : InBlock(q, i)
                         IN  At2(circs[q].J, i - SizeSum(circs, q - 1),
                                 j - SizeSum(circs, q - 1))
                    ELSE 0

\* C3: pcircuit(n) fails with the port-count ValueError, reporting the ports
\* found and leaving no circuit class, exactly when the number of declared
\* ports differs from n; otherwise the class becomes a circuit class of n.
C3_PortCountChecked ==
    (outcome # None /\ outcome.op = "decorate") =>
        /\ outcome.ok <=> (Len(outcome.ports) = outcome.n)
        /\ ~outcome.ok =>
              /\ outcome.error = "ValueError"
              /\ outcome.about = "ports"
              /\ outcome.found = outcome.ports
              /\ circuitCls = None
        /\ outcome.ok =>
              /\ circuitCls # None
              /\ circuitCls.n_pbits = outcome.n
              /\ circuitCls.ports = outcome.ports
C3_Witness ==
    /\ outcome # None
    /\ outcome.op = "decorate"
    /\ ~outcome.ok
    /\ Len(outcome.ports) > outcome.n
    /\ circuitCls = None

\* C4: creating an instance of a pcircuit(n) class succeeds exactly when the
\* supplied J (if any) has shape (n,n) and the supplied h (if any) has
\* shape (n,) or (n,1).
C4_InstanceIffShapes ==
    (outcome # None /\ outcome.op = "new") =>
        LET n == circuitCls.n_pbits
        IN  outcome.ok <=>
              /\ circuitCls.J = None \/ circuitCls.J.shape = <<n, n>>
              /\ circuitCls.h = None \/ circuitCls.h.shape \in {<<n>>, <<n, 1>>}

\* C5: synthesize with a format other than 'sparse' and 'dense' ends in the
\* ValueError without the context's synthesize being invoked and with the
\* registration list as it was; with
\* 'sparse', 'dense' or no argument (then 'sparse') it returns what the
\* context's synthesize returns for that format on the registration list.
C5_FormatChecked ==
    synth # None =>
        /\ synth.arg = "default" => synth.format = "sparse"
        /\ synth.format \notin {"sparse", "dense"} =>
              /\ ~synth.invoked
              /\ synth.result = [ok |-> FALSE, error |-> "ValueError"]
        /\ synth.format \in {"sparse", "dense"} =>
              /\ synth.invoked
              /\ synth.result = ContextSynthesize(synth.registered, synth.format)
        /\ synth.after = synth.registered
C5_Witness ==
    /\ synth # None
    /\ synth.format = "csr"
    /\ ~synth.invoked
    /\ Len(synth.registered) > 0

\* C6: a solve call takes n draws for the initialization and n draws in
\* each step, in unit index order; a returned call has taken n*(Nt+1); and a
\* second call with the same arguments from the same generator state ends
\* as the first did, with the same three histories.
C6_DrawsAndDeterminism ==
    pc # "idle" =>
        LET n == c.n_pbits
        IN  /\ \A k \in 1..Len(drawLog) :
                  /\ drawLog[k].pos = k
                  /\ drawLog[k].unit = ((k - 1) % n) + 1
                  /\ drawLog[k].stage = (k - 1) \div n
            /\ pc = "loop" => Len(drawLog) = n * (run + 1)
            /\ pc = "done" => Len(drawLog) = n * (solver.Nt + 1)
            /\ (pc = "done" /\ calls = 2) => ret = firstRet
            /\ (pc = "aborted" /\ calls = 2) => firstRet = None
C6_Witness ==
    /\ pc = "done"
    /\ calls = 2
    /\ c.n_pbits >= 2
    /\ solver.Nt >= 2
    /\ ret = firstRet
    /\ \E t \in 1..solver.Nt : ret.m[t] # m_init

\* C7: the energy recorded for a step is i0 * (sum_i m_i*h_i + 0.5 * sum_i
\* sum_j m_i*J[i][j]*m_j) on the spin vector recorded for that step (both
\* sides in half-units); for one unit with J = [[0]] it is i0 * m * c.
C7_EnergyOfRecordedSpins ==
    pc # "idle" =>
        \A t \in 1..run :
            LET n == c.n_pbits
                mt == all_m[t]
                field == SumTo([i \in 1..n |-> mt[i] * c.h.flat[i]], n)
                pair == SumTo([i \in 1..n |->
                           SumTo([j \in 1..n |-> mt[i] * At2(c.J, i, j) * mt[j]], n)], n)
            IN  /\ E[t] = solver.i0 * (2 * field + pair)
                /\ (n = 1 /\ At2(c.J, 1, 1) = 0) =>
                       E[t] = 2 * solver.i0 * mt[1] * c.h.flat[1]
C7_Witness ==
    /\ pc = "done"
    /\ c.n_pbits >= 2
    /\ \E t \in 1..solver.Nt : E[t] # 0 /\ all_m[t] # PreStep(t) /\ E[t] % 2 # 0

\* C8: solve on a circuit that passed creation never aborts, and returns
\* I_history and m_history of shape (Nt, n) and E_history of length Nt.
C8_RunsToCompletion ==
    /\ pc # "aborted"
    /\ pc = "done" =>
          /\ ret.shape = <<solver.Nt, c.n_pbits>>
          /\ Len(ret.I) = solver.Nt
          /\ Len(ret.m) = solver.Nt
          /\ Len(ret.E) = solver.Nt

\* C9: in step t every unit's current, survival value and new spin come
\* from the spin vector as it was before the step: the initial spins for the
\* first step, the vector recorded by step t-1 afterwards; the vector
\* recorded by step t is the updated one.
C9_SynchronousUpdate ==
    pc # "idle" =>
        LET n == c.n_pbits
            thr == Arctanh(solver.expected_mean)
        IN  /\ \A t \in 1..run : \A i \in 1..n :
                  LET pre == PreStep(t)
                      cur == solver.i0 *
                               (SumTo([j \in 1..n |-> pre[j] * At2(c.J, i, j)], n)
                                + c.h.flat[i])
                      s_i == Survival(solver.dt, pre[i] * (cur + thr))
                  IN  /\ all_I[t][i] = cur
                      /\ all_m[t][i] = pre[i] * Sign(s_i - tape[n * t + i])
            /\ (pc \in {"loop", "done"} /\ run > 0) => m = all_m[run]
C9_Witness ==
    /\ pc = "done"
    /\ c.n_pbits >= 2
    /\ solver.Nt >= 2
    /\ all_m[1] # m_init
    /\ all_I[2] # all_I[1]

====
